---- MODULE Spec2Model ----
(***************************************************************************)
(* Model of the setup-sstart-env action: src/src/index.js (parseEnvOutput, *)
(* run, downloadFile) and the helper functions of its test files.          *)
(*                                                                         *)
(* JavaScript strings are sequences of one-character strings, so that      *)
(* startsWith, trim, split, slice, toLowerCase, template concatenation and *)
(* the regular expression of parseEnvOutput are computed, not assumed.     *)
(***************************************************************************)
EXTENDS Integers, Sequences, FiniteSets, TLC

(***************************************************************************)
(* Bounds of the model.                                                    *)
(***************************************************************************)
\* longest version input enumerated by SpecUrl
MaxVerLen == 3
\* number of tokens an output text of SpecParse is built from
MaxTokens == 4
\* number of data callbacks (stdout and stderr together) of one subprocess
MaxChunks == 3
\* number of redirect responses followed in one download
MaxRedirects == 2

(***************************************************************************)
(* String literals of the source.                                          *)
(***************************************************************************)
StrDarwin == <<"d","a","r","w","i","n">>
StrLinux == <<"l","i","n","u","x">>
StrWin32 == <<"w","i","n","3","2">>
StrX64 == <<"x","6","4">>
StrArm64 == <<"a","r","m","6","4">>
StrIa32 == <<"i","a","3","2">>
StrAmd64 == <<"a","m","d","6","4">>
StrX86_64 == <<"x","8","6","_","6","4">>
OsDarwin == <<"D","a","r","w","i","n">>
OsLinux == <<"L","i","n","u","x">>
DefaultVersion == <<"0",".","0",".","2">>
UrlBase == <<"h","t","t","p","s",":","/","/","g","i","t","h","u","b",".","c","o","m","/","d","i","r","a","t","h","e","a","/","s","s","t","a","r","t","/","r","e","l","e","a","s","e","s","/","d","o","w","n","l","o","a","d","/">>
SstartUnderscore == <<"/","s","s","t","a","r","t","_">>
SstartHyphen == <<"/","s","s","t","a","r","t","-">>
TarGz == <<".","t","a","r",".","g","z">>
ProtoKey == <<"_","_","p","r","o","t","o","_","_">>

(***************************************************************************)
(* Character classes.                                                      *)
(***************************************************************************)
UpperCase == {"A","B","C","D","E","F","G","H","I","J","K","L","M","N","O","P","Q","R","S","T","U","V","W","X","Y","Z"}
LowerCase == {"a","b","c","d","e","f","g","h","i","j","k","l","m","n","o","p","q","r","s","t","u","v","w","x","y","z"}
Digits == {"0","1","2","3","4","5","6","7","8","9"}

\* the characters String.prototype.trim removes (those of the model's alphabet)
WhiteSpace == {" ", "\t", "\n", "\r", "\f"}

\* the characters '.' of a regular expression does not match
LineTerminators == {"\n", "\r"}

\* [A-Za-z_] : the first character of the key group
IdentStart == UpperCase \cup LowerCase \cup {"_"}

\* [A-Za-z0-9_] with '-' admitted as well
IdentCharWithHyphen == IdentStart \cup Digits \cup {"-"}

\* [A-Za-z0-9_] : the further characters of the key group
IdentChar == IdentStart \cup Digits

(***************************************************************************)
(* String operations.                                                      *)
(***************************************************************************)
\* s.startsWith(p)
StartsWith(s, p) == Len(s) >= Len(p) /\ SubSeq(s, 1, Len(p)) = p

\* s.slice(1)
Slice1(s) == SubSeq(s, 2, Len(s))

RECURSIVE TrimStart(_)
TrimStart(s) ==
  IF s # <<>> /\ Head(s) \in WhiteSpace THEN TrimStart(Tail(s)) ELSE s

RECURSIVE TrimEnd(_)
TrimEnd(s) ==
  IF s # <<>> /\ s[Len(s)] \in WhiteSpace
  THEN TrimEnd(SubSeq(s, 1, Len(s) - 1))
  ELSE s

\* s.trim()
Trim(s) == TrimEnd(TrimStart(s))

\* s.indexOf(c) + 1, 0 when c does not occur
FirstIndex(s, c) ==
  IF \E i \in 1..Len(s) : s[i] = c
  THEN CHOOSE i \in 1..Len(s) : s[i] = c /\ \A j \in 1..(i - 1) : s[j] # c
  ELSE 0

\* s.split('\n')
RECURSIVE SplitLines(_)
SplitLines(s) ==
  LET i == FirstIndex(s, "\n")
  IN IF i = 0
     THEN <<s>>
     ELSE <<SubSeq(s, 1, i - 1)>> \o SplitLines(SubSeq(s, i + 1, Len(s)))

\* c.toLowerCase() for one character
LowerChar(c) ==
  IF c \in UpperCase
  THEN CHOOSE l \in LowerCase :
         \E k \in 1..26 :
           /\ <<"A","B","C","D","E","F","G","H","I","J","K","L","M","N","O","P","Q","R","S","T","U","V","W","X","Y","Z">>[k] = c
           /\ <<"a","b","c","d","e","f","g","h","i","j","k","l","m","n","o","p","q","r","s","t","u","v","w","x","y","z">>[k] = l
  ELSE c

\* s.toLowerCase()
ToLowerCase(s) == [i \in 1..Len(s) |-> LowerChar(s[i])]

(***************************************************************************)
(* Platform resolution and download URL of run().                          *)
(***************************************************************************)
\* the platform test with the two comparisons joined by || instead of &&
UnsupportedPlatformOr(platform) == platform # StrDarwin \/ platform # StrLinux

\* platform !== 'darwin' && platform !== 'linux'
UnsupportedPlatform(platform) == platform # StrDarwin /\ platform # StrLinux

\* let os = platform === 'darwin' ? 'Darwin' : 'Linux'
Os(platform) == IF platform = StrDarwin THEN OsDarwin ELSE OsLinux

\* the architecture label of the underscore test file
ArchitectureX86(arch) ==
  IF arch = StrX64 THEN StrX86_64
  ELSE IF arch = StrArm64 THEN StrArm64
  ELSE arch

\* let architecture = arch; if (x64) amd64 else if (arm64) arm64
Architecture(arch) ==
  IF arch = StrX64 THEN StrAmd64
  ELSE IF arch = StrArm64 THEN StrArm64
  ELSE arch

\* `${os}_${architecture}`
PlatformString(platform, arch) == Os(platform) \o <<"_">> \o Architecture(arch)

\* core.getInput('version') || '0.0.2'
VersionOrDefault(input) == IF input = <<>> THEN DefaultVersion ELSE input

\* the prefix added without looking at the version
NormalizedVersionAlways(version) == <<"v">> \o version

\* version.startsWith('v') ? version : `v${version}`
NormalizedVersion(version) ==
  IF StartsWith(version, <<"v">>) THEN version ELSE <<"v">> \o version

\* the URL template of run()
DownloadUrl(version, platform, arch) ==
  UrlBase \o NormalizedVersion(version) \o SstartUnderscore
          \o PlatformString(platform, arch) \o TarGz

\* path.join(process.cwd(), `sstart_${platformString}.tar.gz`), relative to cwd
ArchivePath(platform, arch) ==
  Tail(SstartUnderscore) \o PlatformString(platform, arch) \o TarGz

(***************************************************************************)
(* Helpers of the underscore test file (src/unnamed/part_000).             *)
(***************************************************************************)
normalizeVersion_underscore(version) ==
  IF StartsWith(version, <<"v">>) THEN version ELSE <<"v">> \o version

normalizeArchitecture_underscore(arch) ==
  IF arch = StrX64 THEN StrX86_64
  ELSE IF arch = StrArm64 THEN StrArm64
  ELSE arch

getPlatformString_underscore(platform, arch) ==
  (IF platform = StrDarwin THEN OsDarwin ELSE OsLinux)
    \o <<"_">> \o normalizeArchitecture_underscore(arch)

buildDownloadUrl_underscore(version, platform, arch) ==
  UrlBase \o normalizeVersion_underscore(version) \o SstartUnderscore
          \o getPlatformString_underscore(platform, arch) \o TarGz

(***************************************************************************)
(* Helpers of the hyphenated test file (src/src/index.js, lines 196-222).  *)
(***************************************************************************)
normalizeVersion_hyphen(version) ==
  IF StartsWith(version, <<"v">>) THEN version ELSE <<"v">> \o version

normalizeArchitecture_hyphen(arch) ==
  IF arch = StrX64 THEN StrAmd64
  ELSE IF arch = StrArm64 THEN StrArm64
  ELSE arch

getPlatformString_hyphen(platform, arch) ==
  (IF platform = StrDarwin THEN OsDarwin ELSE OsLinux)
    \o <<"_">> \o normalizeArchitecture_hyphen(arch)

buildDownloadUrl_hyphen(version, platform, arch) ==
  LET normalizedVersion == normalizeVersion_hyphen(version)
      versionWithoutV == IF StartsWith(version, <<"v">>) THEN Slice1(version) ELSE version
      os == IF platform = StrDarwin THEN StrDarwin ELSE StrLinux
      architecture == ToLowerCase(normalizeArchitecture_hyphen(arch))
  IN UrlBase \o normalizedVersion \o SstartHyphen \o versionWithoutV
       \o <<"-">> \o os \o <<"-">> \o architecture \o TarGz

(***************************************************************************)
(* parseEnvOutput of index.js (line-oriented).                             *)
(***************************************************************************)
\* length of the longest prefix of s made of characters of cls
RECURSIVE PrefixLen(_, _)
PrefixLen(s, cls) ==
  IF s # <<>> /\ Head(s) \in cls THEN 1 + PrefixLen(Tail(s), cls) ELSE 0

\* trimmed.match(/^([A-Za-z_][A-Za-z0-9_]*)=(.*)$/) with '-' allowed in the key
MatchEnvLineAnyStart(trimmed) ==
  LET k == PrefixLen(trimmed, IdentChar)
  IN IF /\ k >= 1
        /\ Len(trimmed) > k
        /\ trimmed[k + 1] = "="
        /\ \A i \in (k + 2)..Len(trimmed) : trimmed[i] \notin LineTerminators
     THEN [matched |-> TRUE, key |-> SubSeq(trimmed, 1, k),
           value |-> SubSeq(trimmed, k + 2, Len(trimmed))]
     ELSE [matched |-> FALSE, key |-> <<>>, value |-> <<>>]

MatchEnvLineHyphen(trimmed) ==
  LET k == PrefixLen(trimmed, IdentCharWithHyphen)
  IN IF /\ k >= 1
        /\ trimmed[1] \in IdentStart
        /\ Len(trimmed) > k
        /\ trimmed[k + 1] = "="
        /\ \A i \in (k + 2)..Len(trimmed) : trimmed[i] \notin LineTerminators
     THEN [matched |-> TRUE, key |-> SubSeq(trimmed, 1, k),
           value |-> SubSeq(trimmed, k + 2, Len(trimmed))]
     ELSE [matched |-> FALSE, key |-> <<>>, value |-> <<>>]

\* trimmed.match(/^([A-Za-z_][A-Za-z0-9_]*)=(.*)$/): the key group is greedy and
\* '=' is no key character, so the key is the longest prefix of key characters
MatchEnvLine(trimmed) ==
  LET k == PrefixLen(trimmed, IdentChar)
  IN IF /\ k >= 1
        /\ trimmed[1] \in IdentStart
        /\ Len(trimmed) > k
        /\ trimmed[k + 1] = "="
        /\ \A i \in (k + 2)..Len(trimmed) : trimmed[i] \notin LineTerminators
     THEN [matched |-> TRUE, key |-> SubSeq(trimmed, 1, k),
           value |-> SubSeq(trimmed, k + 2, Len(trimmed))]
     ELSE [matched |-> FALSE, key |-> <<>>, value |-> <<>>]

\* an object is the sequence of its own enumerable string-keyed properties in
\* insertion order, each a record [key, value]
HasKey(obj, key) == \E i \in 1..Len(obj) : obj[i].key = key

\* envVars[key] = value, as a list of pairs that never looks for the key
ObjSetAppend(obj, key, value) == Append(obj, [key |-> key, value |-> value])

\* envVars[key] = value on an object created by {} with a string value:
\* '__proto__' is the accessor of Object.prototype, whose setter ignores a value
\* that is no object; an existing key keeps its place; a new key is appended
ObjSet(obj, key, value) ==
  IF key = ProtoKey THEN obj
  ELSE IF HasKey(obj, key)
  THEN [i \in 1..Len(obj) |->
          IF obj[i].key = key THEN [key |-> key, value |-> value] ELSE obj[i]]
  ELSE Append(obj, [key |-> key, value |-> value])

\* Object.entries(envVars): no key of parseEnvOutput is an array index, so the
\* order is the insertion order
ObjectEntries(obj) == obj

\* one iteration of the for loop of parseEnvOutput
ParseLine(envVars, line) ==
  LET trimmed == Trim(line)
  IN IF trimmed = <<>> \/ StartsWith(trimmed, <<"#">>)
     THEN envVars
     ELSE LET match == MatchEnvLine(trimmed)
          IN IF match.matched
             THEN ObjSet(envVars, match.key, match.value)
             ELSE envVars

RECURSIVE ParseLines(_, _, _)
ParseLines(lines, i, envVars) ==
  IF i > Len(lines) THEN envVars
  ELSE ParseLines(lines, i + 1, ParseLine(envVars, lines[i]))

parseEnvOutput(output) == ParseLines(SplitLines(output), 1, <<>>)

(***************************************************************************)
(* parseEnvOutput of the test file: JSON.parse of the trimmed output.       *)
(* Numbers are integers and strings hold no escape sequence in the texts    *)
(* the model draws.                                                         *)
(***************************************************************************)
\* no value: the helper threw or was not called
Undefined == [type |-> "undefined", text |-> <<>>, items |-> <<>>]

JNull == [type |-> "null", text |-> <<>>, items |-> <<>>]

JBoolean(text) == [type |-> "boolean", text |-> text, items |-> <<>>]

JNumber(text) == [type |-> "number", text |-> text, items |-> <<>>]

JString(text) == [type |-> "string", text |-> text, items |-> <<>>]

JArray(items) == [type |-> "array", text |-> <<>>, items |-> items]

\* an object: its members [key, value] in insertion order
JObject(members) == [type |-> "object", text |-> <<>>, items |-> members]

\* the result of parsing a value that starts at some index: pos is the index
\* after it
ParseFail == [ok |-> FALSE, value |-> Undefined, pos |-> 0]

ParseOk(value, pos) == [ok |-> TRUE, value |-> value, pos |-> pos]

\* the white space of the JSON grammar
JsonWhiteSpace == {" ", "\t", "\n", "\r"}

RECURSIVE SkipWs(_, _)
SkipWs(s, i) ==
  IF i <= Len(s) /\ s[i] \in JsonWhiteSpace THEN SkipWs(s, i + 1) ELSE i

IsLiteralAt(s, i, lit) ==
  /\ i + Len(lit) - 1 <= Len(s)
  /\ SubSeq(s, i, i + Len(lit) - 1) = lit

\* the index after the digits that start at i
RECURSIVE DigitsEnd(_, _)
DigitsEnd(s, i) ==
  IF i <= Len(s) /\ s[i] \in Digits THEN DigitsEnd(s, i + 1) ELSE i

\* -? (0 | [1-9][0-9]*)
ParseNumber(s, i) ==
  LET j == IF s[i] = "-" THEN i + 1 ELSE i
      k == DigitsEnd(s, j)
  IN  IF k = j THEN ParseFail
      ELSE IF s[j] = "0" THEN ParseOk(JNumber(SubSeq(s, i, j)), j + 1)
      ELSE ParseOk(JNumber(SubSeq(s, i, k - 1)), k)

\* the characters up to the closing quote; a control character ends the parse
RECURSIVE ParseStringBody(_, _, _)
ParseStringBody(s, i, acc) ==
  IF i > Len(s) THEN ParseFail
  ELSE IF s[i] = "\"" THEN ParseOk(JString(acc), i + 1)
  ELSE IF s[i] \in {"\n", "\r", "\t", "\f", "\\"} THEN ParseFail
  ELSE ParseStringBody(s, i + 1, Append(acc, s[i]))

ParseString(s, i) == ParseStringBody(s, i + 1, <<>>)

\* CreateDataProperty: a repeated key keeps its place and takes the new value
SetMember(members, key, value) ==
  IF \E i \in 1..Len(members) : members[i].key = key
  THEN [i \in 1..Len(members) |->
          IF members[i].key = key THEN [key |-> key, value |-> value]
          ELSE members[i]]
  ELSE Append(members, [key |-> key, value |-> value])

RECURSIVE ParseValue(_, _)
RECURSIVE ParseElements(_, _, _)
RECURSIVE ParseMembers(_, _, _)

\* value ("," value)* "]", from index i
ParseElements(s, i, acc) ==
  LET v == ParseValue(s, i)
      j == SkipWs(s, v.pos)
  IN  IF ~v.ok \/ j > Len(s) THEN ParseFail
      ELSE IF s[j] = "," THEN ParseElements(s, j + 1, Append(acc, v.value))
      ELSE IF s[j] = "]" THEN ParseOk(JArray(Append(acc, v.value)), j + 1)
      ELSE ParseFail

\* string ":" value ("," string ":" value)* "}", from index i
ParseMembers(s, i, acc) ==
  LET j == SkipWs(s, i)
  IN  IF j > Len(s) \/ s[j] # "\"" THEN ParseFail
      ELSE
        LET key == ParseString(s, j)
            k == SkipWs(s, key.pos)
        IN  IF ~key.ok \/ k > Len(s) \/ s[k] # ":" THEN ParseFail
            ELSE
              LET v == ParseValue(s, k + 1)
                  m == SkipWs(s, v.pos)
                  members == SetMember(acc, key.value.text, v.value)
              IN  IF ~v.ok \/ m > Len(s) THEN ParseFail
                  ELSE IF s[m] = "," THEN ParseMembers(s, m + 1, members)
                  ELSE IF s[m] = "}" THEN ParseOk(JObject(members), m + 1)
                  ELSE ParseFail

ParseValue(s, i) ==
  LET j == SkipWs(s, i)
  IN  IF j > Len(s) THEN ParseFail
      ELSE IF s[j] = "{"
      THEN LET k == SkipWs(s, j + 1)
           IN  IF k <= Len(s) /\ s[k] = "}" THEN ParseOk(JObject(<<>>), k + 1)
               ELSE ParseMembers(s, j + 1, <<>>)
      ELSE IF s[j] = "["
      THEN LET k == SkipWs(s, j + 1)
           IN  IF k <= Len(s) /\ s[k] = "]" THEN ParseOk(JArray(<<>>), k + 1)
               ELSE ParseElements(s, j + 1, <<>>)
      ELSE IF s[j] = "\"" THEN ParseString(s, j)
      ELSE IF s[j] \in Digits \cup {"-"} THEN ParseNumber(s, j)
      ELSE IF IsLiteralAt(s, j, <<"n","u","l","l">>) THEN ParseOk(JNull, j + 4)
      ELSE IF IsLiteralAt(s, j, <<"t","r","u","e">>)
      THEN ParseOk(JBoolean(<<"t","r","u","e">>), j + 4)
      ELSE IF IsLiteralAt(s, j, <<"f","a","l","s","e">>)
      THEN ParseOk(JBoolean(<<"f","a","l","s","e">>), j + 5)
      ELSE ParseFail

\* JSON.parse(text): the value, or ok = FALSE for the SyntaxError
JSONParse(text) ==
  LET r == ParseValue(text, 1)
  IN  IF r.ok /\ SkipWs(text, r.pos) > Len(text)
      THEN [ok |-> TRUE, value |-> r.value]
      ELSE [ok |-> FALSE, value |-> Undefined]

\* a type test that lets arrays through
IsObjectOrArray(v) == v.type \in {"object", "array"}

\* !(typeof envVars !== 'object' || envVars === null || Array.isArray(envVars))
IsPlainObject(v) == v.type = "object"

FailedToParse == "Failed to parse JSON output from sstart env: "

ExpectedJsonObject == "Expected JSON object"

Returned(value) ==
  [called |-> TRUE, threw |-> FALSE, message |-> <<>>, value |-> value]

Threw(message) ==
  [called |-> TRUE, threw |-> TRUE, message |-> message, value |-> Undefined]

parseEnvOutput_underscore(output) ==
  LET trimmed == Trim(output)
  IN  IF trimmed = <<>> THEN Returned(JObject(<<>>))
      ELSE LET decoded == JSONParse(trimmed)
           IN  IF ~decoded.ok THEN Threw(<<FailedToParse, "SyntaxError">>)
               ELSE IF ~IsPlainObject(decoded.value)
               THEN Threw(<<FailedToParse, ExpectedJsonObject>>)
               ELSE Returned(decoded.value)

(***************************************************************************)
(* The environment of one run.                                             *)
(***************************************************************************)
\* HTTP status lines a release host or a CDN answers with
Statuses == {"200", "204", "301", "302", "303", "307", "308", "404", "500"}

\* res.statusCode === 301 || ... 302 || ... 307 || ... 308
RedirectStatuses == {"301", "302", "307", "308"}

\* the Location header values of the redirect responses
Locations == {<<"h","t","t","p","s",":","/","/","c","d","n">>}

\* data chunks the subprocess writes to its standard output
StdoutChunks ==
  { <<"A","=","1">>, <<"A","=","2">>, <<"B","=">>, <<"\n">>, <<"1">>,
    <<"_","_","p","r","o","t","o","_","_","=","3">> }

\* data chunks the subprocess writes to its standard error
StderrChunks == { <<"E">> }

\* exit codes of the subprocess
ExitCodes == {"0", "1"}

\* a file that does not exist
NoFile == [exists |-> FALSE, content |-> <<>>]

File(content) == [exists |-> TRUE, content |-> content]

\* the archive file: complete once the write stream finished; body names the URL
\* and response the number of the response whose body was piped into it
NoArchive == [exists |-> FALSE, complete |-> FALSE, body |-> <<>>, response |-> 0]

\* a response as the callback of get sees it: its number in the run, the
\* status code and the Location header
NoResponse == [n |-> 0, status |-> "none", hasLocation |-> FALSE, location |-> <<>>]

Response(n, status, hasLocation, location) ==
  [n |-> n, status |-> status, hasLocation |-> hasLocation, location |-> location]

\* the result of the test helper parseEnvOutput: not called, a thrown Error with
\* its message, or the returned value; a value is a record of its type, its
\* text (numbers, strings) and its items (array elements, object members)
NotParsed == [called |-> FALSE, threw |-> FALSE, message |-> <<>>, value |-> Undefined]

\* a message handed to core.setFailed / info / warning / error
Msg(level, kind, arg) == [level |-> level, kind |-> kind, arg |-> arg]

VARIABLES
  inConfig,     \* the config input as core.getInput returns it, <<>> if not supplied
  inVersion,    \* the version input, <<>> if not supplied
  platform,     \* process.platform
  arch,         \* process.arch
  oldConfig,    \* the file .sstart.yml as it is when run() is called
  pc,           \* position of run()
  config,       \* const config
  version,      \* const version
  platformString,
  downloadUrl,
  requests,     \* the URLs GET was issued against, in order
  archive,      \* the file at archivePath
  unlinkPending,\* an fs.unlink(destPath) issued and not yet completed
  response,     \* the last response the callback of get was called with
  binary,       \* [exists, executable] of the sstart binary in cwd
  pathAdded,    \* core.addPath(process.cwd()) was called
  configFile,   \* the file .sstart.yml in cwd
  configWritten,\* fs.writeFileSync(configPath, ...) returned in this run
  output,       \* let output
  errorOutput,  \* let errorOutput
  chunks,       \* number of data callbacks so far
  exitCode,
  envVars,      \* const envVars
  count,        \* let count
  exported,     \* the core.exportVariable calls made, in order
  masked,       \* the values registered with core.setSecret
  msgs,         \* the core.setFailed / info / warning / error calls, in order
  steps,        \* the pipeline steps entered, in order
  helperUrls,   \* results of the test helpers, when evaluated
  helperParsed  \* result of the test helper parseEnvOutput, when evaluated

vars ==
  << inConfig, inVersion, platform, arch, oldConfig, pc, config, version, platformString,
     downloadUrl, requests, archive, unlinkPending, response, binary, pathAdded,
     configFile, configWritten, output, errorOutput, chunks, exitCode, envVars,
     count, exported, masked, msgs, steps, helperUrls, helperParsed >>

inputVars == << inConfig, inVersion, platform, arch, oldConfig >>
localVars == << config, version, platformString, downloadUrl >>
netVars == << requests, archive, unlinkPending, response >>
installVars == << binary, pathAdded >>
cfgVars == << configFile, configWritten >>
procVars == << output, errorOutput, chunks, exitCode >>
exportVars == << envVars, count, exported, masked >>
helperVars == << helperUrls, helperParsed >>

NoHelpers == [evaluated |-> FALSE, arch |-> <<>>, platformString |-> <<>>,
              underscoreUrl |-> <<>>, hyphenArch |-> <<>>,
              hyphenPlatformString |-> <<>>, hyphenUrl |-> <<>>]

\* the state at the call of run(), the inputs and the old .sstart.yml drawn
\* from the given sets
InitWith(pc0, configs, versions, platforms, archs, oldFiles) ==
  /\ inConfig \in configs
  /\ inVersion \in versions
  /\ platform \in platforms
  /\ arch \in archs
  /\ oldConfig \in oldFiles
  /\ configFile = oldConfig
  /\ pc = pc0
  /\ config = <<>>
  /\ version = <<>>
  /\ platformString = <<>>
  /\ downloadUrl = <<>>
  /\ requests = <<>>
  /\ archive = NoArchive
  /\ unlinkPending = FALSE
  /\ response = NoResponse
  /\ binary = [exists |-> FALSE, executable |-> FALSE]
  /\ pathAdded = FALSE
  /\ configWritten = FALSE
  /\ output = <<>>
  /\ errorOutput = <<>>
  /\ chunks = 0
  /\ exitCode = "none"
  /\ envVars = <<>>
  /\ count = 0
  /\ exported = <<>>
  /\ masked = {}
  /\ msgs = <<>>
  /\ steps = <<>>
  /\ helperUrls = NoHelpers
  /\ helperParsed = NotParsed

\* the inputs of Spec; SpecUrl below enumerates versions and architectures
Configs == { <<>>, <<"c">> }
Versions == { <<>> }
Platforms == { StrDarwin, StrLinux, StrWin32 }
Archs == { StrX64, StrIa32 }
AllArchs == { StrX64, StrArm64, StrIa32 }
OldFiles == { NoFile, File(<<"o">>) }

Init == InitWith("start", Configs, Versions, Platforms, Archs, OldFiles)

\* } catch (error) { core.setFailed(error.message); } of run()
Catch(kind, arg) ==
  /\ msgs' = Append(msgs, Msg("failed", kind, arg))
  /\ pc' = "done"

(***************************************************************************)
(* run(): the synchronous start, lines 36-74.                              *)
(***************************************************************************)
\* a getInput that does not require the config
ReadInputsNotRequired ==
  /\ pc = "start"
  /\ steps' = Append(steps, "inputs")
  /\ config' = inConfig
  /\ version' = VersionOrDefault(inVersion)
  /\ pc' = "platform"
  /\ UNCHANGED << inputVars, platformString, downloadUrl, netVars, installVars,
                  cfgVars, procVars, exportVars, msgs, helperVars >>

\* core.getInput('config', { required: true }) throws when the input is empty
ReadInputs ==
  /\ pc = "start"
  /\ steps' = Append(steps, "inputs")
  /\ IF inConfig = <<>>
     THEN /\ Catch("InputRequired", <<"c","o","n","f","i","g">>)
          /\ UNCHANGED << config, version >>
     ELSE /\ config' = inConfig
          /\ version' = VersionOrDefault(inVersion)
          /\ pc' = "platform"
          /\ UNCHANGED msgs
  /\ UNCHANGED << inputVars, platformString, downloadUrl, netVars, installVars,
                  cfgVars, procVars, exportVars, helperVars >>

CheckPlatform ==
  /\ pc = "platform"
  /\ steps' = Append(steps, "platform")
  /\ IF UnsupportedPlatform(platform)
     THEN /\ msgs' = Append(msgs, Msg("failed", "UnsupportedPlatform", platform))
          /\ pc' = "done"
          /\ UNCHANGED platformString
     ELSE /\ platformString' = PlatformString(platform, arch)
          /\ msgs' = Append(msgs, Msg("info", "DetectedPlatform", platformString'))
          /\ pc' = "url"
  /\ UNCHANGED << inputVars, config, version, downloadUrl, netVars, installVars,
                  cfgVars, procVars, exportVars, helperVars >>

\* lines 61-74: the URL is built and downloadFile issues the first GET
StartDownload ==
  /\ pc = "url"
  /\ steps' = Append(steps, "download")
  /\ downloadUrl' = DownloadUrl(version, platform, arch)
  /\ msgs' = Append(msgs, Msg("info", "Downloading", downloadUrl'))
  /\ requests' = <<downloadUrl'>>
  /\ pc' = "download"
  /\ UNCHANGED << inputVars, config, version, platformString, archive,
                  unlinkPending, response, installVars, cfgVars, procVars, exportVars,
                  helperVars >>

(***************************************************************************)
(* downloadFile(url, destPath), lines 150-183, and the catch of lines      *)
(* 75-78.  A rejection is observed by run() in the same turn of the event  *)
(* loop (a microtask), so rejecting and reporting are one step.            *)
(***************************************************************************)
\* a catch of lines 75-78 without its return
DownloadRejectedNoReturn(kind, arg) ==
  /\ msgs' = Append(msgs, Msg("failed", "CouldNotDownload", <<kind>> \o arg))
  /\ pc' = "extract"

DownloadRejected(kind, arg) ==
  /\ msgs' = Append(msgs, Msg("failed", "CouldNotDownload", <<kind>> \o arg))
  /\ pc' = "done"

\* a redirect test that also follows 303
IsRedirect3xx(statusCode) == statusCode \in RedirectStatuses \cup {"303"}

\* res.statusCode === 301 || ... === 302 || ... === 307 || ... === 308
IsRedirect(statusCode) == statusCode \in RedirectStatuses

\* a redirect handler that asks the same URL again
RedirectTargetSame(url, location) == url

\* downloadFile(res.headers.location, destPath): the URL of the next GET
RedirectTarget(url, location) == location

\* a success test that accepts 204 as well
IsOk2xx(statusCode) == statusCode \in {"200", "204"}

\* !(res.statusCode !== 200)
IsOk(statusCode) == statusCode = "200"

\* a 301/302/307/308 response with a Location header out of locs: the GET is
\* issued again
HttpRedirectTo(locs) ==
  /\ pc = "download"
  /\ Len(requests) <= MaxRedirects
  /\ \E status \in Statuses, location \in locs :
       /\ IsRedirect(status)
       /\ response' = Response(response.n + 1, status, TRUE, location)
       /\ requests' = Append(requests,
                             RedirectTarget(requests[Len(requests)], location))
  /\ UNCHANGED << inputVars, localVars, pc, archive, unlinkPending, installVars,
                  cfgVars, procVars, exportVars, msgs, steps, helperVars >>

HttpRedirect == HttpRedirectTo(Locations)

\* a redirect without Location that leaves the promise pending
HttpRedirectNoLocationHangs ==
  /\ pc = "download"
  /\ \E status \in Statuses :
       /\ IsRedirect(status)
       /\ response' = Response(response.n + 1, status, FALSE, <<>>)
  /\ pc' = "pending"
  /\ UNCHANGED << inputVars, localVars, requests, archive, unlinkPending,
                  installVars, cfgVars, procVars, exportVars, msgs, steps,
                  helperVars >>

\* a 301/302/307/308 response without Location: downloadFile(undefined, ...)
\* throws in url.startsWith inside the Promise executor, which rejects
HttpRedirectNoLocation ==
  /\ pc = "download"
  /\ \E status \in Statuses :
       /\ IsRedirect(status)
       /\ response' = Response(response.n + 1, status, FALSE, <<>>)
       /\ DownloadRejected("TypeError", <<>>)
  /\ UNCHANGED << inputVars, localVars, requests, archive, unlinkPending,
                  installVars, cfgVars, procVars, exportVars, steps, helperVars >>

\* res.statusCode !== 200, not one of the four redirects
HttpFailure ==
  /\ pc = "download"
  /\ \E status \in Statuses, hasLocation \in BOOLEAN, location \in Locations :
       /\ ~IsRedirect(status)
       /\ ~IsOk(status)
       /\ response' = Response(response.n + 1, status, hasLocation,
                               IF hasLocation THEN location ELSE <<>>)
       /\ DownloadRejected("DownloadFailedWithStatus", <<status>>)
  /\ UNCHANGED << inputVars, localVars, requests, archive, unlinkPending,
                  installVars, cfgVars, procVars, exportVars, steps, helperVars >>

\* .on('error', ...) of the request
RequestError ==
  /\ pc = "download"
  /\ DownloadRejected("RequestError", <<>>)
  /\ UNCHANGED << inputVars, localVars, netVars, installVars, cfgVars, procVars,
                  exportVars, steps, helperVars >>

\* a 200 branch that resolves before the write stream has finished
HttpOkResolvesEarly ==
  /\ pc = "download"
  /\ response' = Response(response.n + 1, "200", FALSE, <<>>)
  /\ archive' = [exists |-> TRUE, complete |-> FALSE,
                 body |-> requests[Len(requests)], response |-> response'.n]
  /\ msgs' = Append(msgs, Msg("info", "Extracting", <<>>))
  /\ steps' = Append(steps, "extract")
  /\ pc' = "extract"
  /\ UNCHANGED << inputVars, localVars, requests, unlinkPending, installVars,
                  cfgVars, procVars, exportVars, helperVars >>

\* status 200: fs.createWriteStream(destPath); res.pipe(fileStream)
HttpOk ==
  /\ pc = "download"
  /\ \E status \in Statuses :
       /\ ~IsRedirect(status)
       /\ IsOk(status)
       /\ response' = Response(response.n + 1, status, FALSE, <<>>)
  /\ archive' = [exists |-> TRUE, complete |-> FALSE,
                 body |-> requests[Len(requests)], response |-> response'.n]
  /\ pc' = "streaming"
  /\ UNCHANGED << inputVars, localVars, requests, unlinkPending, installVars,
                  cfgVars, procVars, exportVars, msgs, steps, helperVars >>

\* fileStream 'finish': close and resolve; run() goes on to the extraction
StreamFinish ==
  /\ pc = "streaming"
  /\ archive' = [archive EXCEPT !.complete = TRUE]
  /\ msgs' = Append(msgs, Msg("info", "Extracting", <<>>))
  /\ steps' = Append(steps, "extract")
  /\ pc' = "extract"
  /\ UNCHANGED << inputVars, localVars, requests, unlinkPending, response,
                  installVars, cfgVars, procVars, exportVars, helperVars >>

\* an 'error' handler that resolves
StreamWriteErrorResolves ==
  /\ pc = "streaming"
  /\ unlinkPending' = TRUE
  /\ msgs' = Append(msgs, Msg("info", "Extracting", <<>>))
  /\ steps' = Append(steps, "extract")
  /\ pc' = "extract"
  /\ UNCHANGED << inputVars, localVars, requests, archive, response, installVars,
                  cfgVars, procVars, exportVars, helperVars >>

\* fileStream 'error': fs.unlink(destPath, () => {}) is issued, reject(error)
StreamWriteError ==
  /\ pc = "streaming"
  /\ unlinkPending' = TRUE
  /\ DownloadRejected("WriteError", <<>>)
  /\ UNCHANGED << inputVars, localVars, requests, archive, response, installVars,
                  cfgVars, procVars, exportVars, steps, helperVars >>

\* the connection breaks while the body is streamed: res has no 'error' or
\* 'close' listener and pipe does not end the file stream, so neither 'finish'
\* nor 'error' is emitted and the promise stays pending
ResponseAborted ==
  /\ pc = "streaming"
  /\ pc' = "pending"
  /\ UNCHANGED << inputVars, localVars, netVars, installVars, cfgVars, procVars,
                  exportVars, msgs, steps, helperVars >>

\* the asynchronous fs.unlink completes; its error is swallowed by () => {}
UnlinkCompletes ==
  /\ unlinkPending
  /\ unlinkPending' = FALSE
  /\ \E ok \in BOOLEAN :
       archive' = IF ok THEN NoArchive ELSE archive
  /\ UNCHANGED << inputVars, localVars, pc, requests, response, installVars,
                  cfgVars, procVars, exportVars, msgs, steps, helperVars >>

(***************************************************************************)
(* Extraction, chmod, PATH, config file: lines 80-101.                     *)
(***************************************************************************)
\* a catch of lines 86-89 without its return
ExtractRejectedNoReturn(arg) ==
  /\ msgs' = Append(msgs, Msg("failed", "CouldNotExtract", arg))
  /\ pc' = "chmod"

\* } catch (error) { core.setFailed(`Could not extract sstart binary: ...`); return; }
ExtractRejected(arg) ==
  /\ msgs' = Append(msgs, Msg("failed", "CouldNotExtract", arg))
  /\ pc' = "done"

\* an unlinkSync that leaves the file in place
UnlinkSyncSkip(file) == file

\* fs.unlinkSync(archivePath) that returns: the file is gone
UnlinkSync(file) == NoArchive

\* await exec.exec('tar', ...) settles; on success fs.unlinkSync(archivePath)
TarExit ==
  /\ pc = "extract"
  /\ \E tarOk \in BOOLEAN, unlinkOk \in BOOLEAN :
       IF ~tarOk
       THEN /\ ExtractRejected(<<"tar">>)
            /\ UNCHANGED << archive, binary, steps >>
       ELSE /\ binary' = [exists |-> TRUE, executable |-> FALSE]
            /\ IF unlinkOk
               THEN /\ archive' = UnlinkSync(archive)
                    /\ steps' = steps \o <<"unlink", "chmod">>
                    /\ pc' = "chmod"
                    /\ UNCHANGED msgs
               ELSE /\ ExtractRejected(<<"unlink">>)
                    /\ steps' = Append(steps, "unlink")
                    /\ UNCHANGED archive
  /\ UNCHANGED << inputVars, localVars, requests, unlinkPending, response, pathAdded,
                  cfgVars, procVars, exportVars, helperVars >>

\* await exec.exec('chmod', ['+x', binaryPath]) settles, then core.addPath
ChmodExit ==
  /\ pc = "chmod"
  /\ \E ok \in BOOLEAN :
       IF ok
       THEN /\ binary' = [binary EXCEPT !.executable = TRUE]
            /\ pathAdded' = TRUE
            /\ msgs' = Append(msgs, Msg("info", "AddedToPath", <<>>))
            /\ steps' = Append(steps, "path")
            /\ pc' = "config"
       ELSE /\ Catch("ExecFailed", <<"chmod">>)
            /\ UNCHANGED << binary, pathAdded, steps >>
  /\ UNCHANGED << inputVars, localVars, netVars, cfgVars, procVars, exportVars,
                  helperVars >>

\* fs.writeFileSync that returns without writing
WriteFileSyncSkip(file, data) == file

\* fs.writeFileSync(configPath, data, 'utf8'): the file holds data, whatever it
\* held before
WriteFileSync(file, data) == File(data)

\* lines 98-108: the config is written and the subprocess is spawned
WriteConfig ==
  /\ pc = "config"
  /\ steps' = Append(steps, "config")
  /\ \E ok \in BOOLEAN :
       IF ok
       THEN /\ configFile' = WriteFileSync(configFile, config)
            /\ configWritten' = TRUE
            /\ msgs' = Append(msgs, Msg("info", "CreatedConfig", <<>>))
            /\ pc' = "spawn"
       ELSE /\ Catch("WriteFailed", <<>>)
            /\ UNCHANGED cfgVars
  /\ UNCHANGED << inputVars, localVars, netVars, installVars, procVars,
                  exportVars, helperVars >>

\* exec.exec(binaryPath, ['env'], ...) starts the child, or rejects when the
\* binary cannot be started
StartSubprocess ==
  /\ pc = "spawn"
  /\ steps' = Append(steps, "exec")
  /\ \E ok \in BOOLEAN :
       IF ok
       THEN /\ msgs' = Append(msgs, Msg("info", "RunningSstartEnv", <<>>))
            /\ pc' = "running"
       ELSE /\ msgs' = msgs \o << Msg("info", "RunningSstartEnv", <<>>),
                                  Msg("failed", "ExecFailed", <<"spawn">>) >>
            /\ pc' = "done"
  /\ UNCHANGED << inputVars, localVars, netVars, installVars, cfgVars, procVars,
                  exportVars, helperVars >>

(***************************************************************************)
(* The subprocess `sstart env`: lines 103-118.                             *)
(***************************************************************************)
\* listeners.stdout: output += data.toString()
StdoutData ==
  /\ pc = "running"
  /\ chunks < MaxChunks
  /\ \E data \in StdoutChunks : output' = output \o data
  /\ chunks' = chunks + 1
  /\ UNCHANGED << inputVars, localVars, pc, netVars, installVars, cfgVars,
                  errorOutput, exitCode, exportVars, msgs, steps, helperVars >>

\* a stderr listener that appends to the buffer of stdout
StderrDataIntoOutput ==
  /\ pc = "running"
  /\ chunks < MaxChunks
  /\ \E data \in StderrChunks : output' = output \o data
  /\ chunks' = chunks + 1
  /\ UNCHANGED << inputVars, localVars, pc, netVars, installVars, cfgVars,
                  errorOutput, exitCode, exportVars, msgs, steps, helperVars >>

\* listeners.stderr: errorOutput += data.toString()
StderrData ==
  /\ pc = "running"
  /\ chunks < MaxChunks
  /\ \E data \in StderrChunks : errorOutput' = errorOutput \o data
  /\ chunks' = chunks + 1
  /\ UNCHANGED << inputVars, localVars, pc, netVars, installVars, cfgVars,
                  output, exitCode, exportVars, msgs, steps, helperVars >>

\* the child exits: exec.exec is called without ignoreReturnCode, so it
\* resolves with 0 and rejects on every other exit code
ProcessExit ==
  /\ pc = "running"
  /\ \E code \in ExitCodes :
       IF code = "0"
       THEN /\ exitCode' = code
            /\ pc' = "exited"
            /\ UNCHANGED msgs
       ELSE /\ Catch("ExecFailed", <<code>>)
            /\ UNCHANGED exitCode
  /\ UNCHANGED << inputVars, localVars, netVars, installVars, cfgVars, output,
                  errorOutput, chunks, exportVars, steps, helperVars >>

(***************************************************************************)
(* Lines 120-144: exit code, empty output, parsing, export.                *)
(***************************************************************************)
\* an emptiness test that does not trim
OutputIsEmptyNoTrim(text) == text = <<>>

\* !output || output.trim() === ''
OutputIsEmpty(text) == text = <<>> \/ Trim(text) = <<>>

CheckExit ==
  /\ pc = "exited"
  /\ IF exitCode # "0"
     THEN /\ msgs' = msgs \o
                 (<< Msg("failed", "ExitedWithCode", <<exitCode>>) >> \o
                  (IF errorOutput # <<>>
                   THEN << Msg("error", "ErrorOutput", errorOutput) >>
                   ELSE << >>))
          /\ pc' = "done"
     ELSE IF OutputIsEmpty(output)
     THEN /\ msgs' = Append(msgs, Msg("warning", "NoOutput", <<>>))
          /\ pc' = "done"
     ELSE /\ msgs' = Append(msgs, Msg("info", "Parsing", <<>>))
          /\ pc' = "parse"
  /\ UNCHANGED << inputVars, localVars, netVars, installVars, cfgVars, procVars,
                  exportVars, steps, helperVars >>

\* const envVars = parseEnvOutput(output); let count = 0
ParseOutput ==
  /\ pc = "parse"
  /\ envVars' = parseEnvOutput(output)
  /\ count' = 0
  /\ steps' = Append(steps, "parse")
  /\ pc' = "export"
  /\ UNCHANGED << inputVars, localVars, netVars, installVars, cfgVars, procVars,
                  exported, masked, msgs, helperVars >>

\* one iteration of for (const [key, value] of Object.entries(envVars)):
\* core.exportVariable(key, value); count++ -- or exportVariable throws
ExportNext ==
  /\ pc = "export"
  /\ count < Len(ObjectEntries(envVars))
  /\ \E ok \in BOOLEAN :
       IF ok
       THEN /\ exported' = Append(exported, ObjectEntries(envVars)[count + 1])
            /\ count' = count + 1
            /\ steps' = Append(steps, "export")
            /\ UNCHANGED << pc, msgs >>
       ELSE /\ Catch("ExportFailed", <<>>)
            /\ UNCHANGED << exported, count, steps >>
  /\ UNCHANGED << inputVars, localVars, netVars, installVars, cfgVars, procVars,
                  envVars, masked, helperVars >>

\* core.info(`Successfully set ${count} environment variable(s)`)
Finish ==
  /\ pc = "export"
  /\ count = Len(ObjectEntries(envVars))
  /\ msgs' = Append(msgs, [level |-> "info", kind |-> "SuccessfullySet",
                           arg |-> <<>>, count |-> count])
  /\ pc' = "done"
  /\ UNCHANGED << inputVars, localVars, netVars, installVars, cfgVars, procVars,
                  exportVars, steps, helperVars >>

Next ==
  \/ ReadInputs \/ CheckPlatform \/ StartDownload
  \/ HttpRedirect \/ HttpRedirectNoLocation \/ HttpFailure \/ RequestError
  \/ HttpOk \/ StreamFinish \/ StreamWriteError \/ ResponseAborted
  \/ UnlinkCompletes
  \/ TarExit \/ ChmodExit \/ WriteConfig \/ StartSubprocess
  \/ StdoutData \/ StderrData \/ ProcessExit
  \/ CheckExit \/ ParseOutput \/ ExportNext \/ Finish

Spec == Init /\ [][Next]_vars

(***************************************************************************)
(* SpecUrl: the start of run() up to the first GET, over every version     *)
(* input of up to MaxVerLen characters, with the helpers of the two test   *)
(* files applied to the same version, platform and architecture.           *)
(***************************************************************************)
VerAlphabet == {"v", "1", "."}

VersionStrings == UNION { [1..n -> VerAlphabet] : n \in 0..MaxVerLen }

InitUrl == InitWith("start", Configs, VersionStrings, Platforms, AllArchs, {NoFile})

\* the test helpers, called as the tests call them
EvalHelpers ==
  /\ pc = "download"
  /\ ~helperUrls.evaluated
  /\ helperUrls' =
       [evaluated |-> TRUE,
        arch |-> normalizeArchitecture_underscore(arch),
        platformString |-> getPlatformString_underscore(platform, arch),
        underscoreUrl |-> buildDownloadUrl_underscore(version, platform, arch),
        hyphenArch |-> normalizeArchitecture_hyphen(arch),
        hyphenPlatformString |-> getPlatformString_hyphen(platform, arch),
        hyphenUrl |-> buildDownloadUrl_hyphen(version, platform, arch)]
  /\ UNCHANGED << inputVars, localVars, pc, netVars, installVars, cfgVars,
                  procVars, exportVars, msgs, steps, helperParsed >>

NextUrl == ReadInputs \/ CheckPlatform \/ StartDownload \/ EvalHelpers

SpecUrl == InitUrl /\ [][NextUrl]_vars

(***************************************************************************)
(* SpecParse: parseEnvOutput applied to every text of up to MaxTokens      *)
(* tokens.                                                                 *)
(***************************************************************************)
Tokens ==
  { <<"A">>, <<"1">>, <<"=">>, <<"#">>, <<"-">>, <<" ">>, <<"\n">>, <<"\r">>,
    ProtoKey }

InitParse == InitWith("text", {<<"c">>}, {<<>>}, {StrLinux}, {StrX64}, {NoFile})

AppendToken ==
  /\ pc = "text"
  /\ chunks < MaxTokens
  /\ \E token \in Tokens : output' = output \o token
  /\ chunks' = chunks + 1
  /\ UNCHANGED << inputVars, localVars, pc, netVars, installVars, cfgVars,
                  errorOutput, exitCode, exportVars, msgs, steps, helperVars >>

ApplyParse ==
  /\ pc = "text"
  /\ envVars' = parseEnvOutput(output)
  /\ pc' = "parsed"
  /\ UNCHANGED << inputVars, localVars, netVars, installVars, cfgVars, procVars,
                  count, exported, masked, msgs, steps, helperVars >>

NextParse == AppendToken \/ ApplyParse

SpecParse == InitParse /\ [][NextParse]_vars

(***************************************************************************)
(* SpecDownload: one run with a fixed input up to the end of the           *)
(* extraction, the redirects drawn from several Location values.           *)
(***************************************************************************)
\* Location header values: an https URL, and an http URL that is served by
\* the http module
AllLocations ==
  { <<"h","t","t","p","s",":","/","/","c","d","n">>,
    <<"h","t","t","p",":","/","/","m">> }

InitDownload == InitWith("start", Configs, {<<>>}, Platforms, {StrX64}, {NoFile})

HttpRedirectAny == HttpRedirectTo(AllLocations)

NextDownload ==
  \/ ReadInputs \/ CheckPlatform \/ StartDownload
  \/ HttpRedirectAny \/ HttpRedirectNoLocation \/ HttpFailure \/ RequestError
  \/ HttpOk \/ StreamFinish \/ StreamWriteError \/ ResponseAborted
  \/ UnlinkCompletes \/ TarExit

SpecDownload == InitDownload /\ [][NextDownload]_vars

(***************************************************************************)
(* SpecJson: both parseEnvOutput functions applied to every text of up to   *)
(* MaxTokens tokens of JSON and of one KEY=VALUE line.                      *)
(***************************************************************************)
JsonTokens ==
  { <<"{">>, <<"}">>, <<"[">>, <<"]">>, <<",">>, <<" ">>, <<"1">>,
    <<"n","u","l","l">>, <<"\"","K","\"",":">>, <<"A","=","1">> }

InitJson == InitWith("text", {<<"c">>}, {<<>>}, {StrLinux}, {StrX64}, {NoFile})

AppendJsonToken ==
  /\ pc = "text"
  /\ chunks < MaxTokens
  /\ \E token \in JsonTokens : output' = output \o token
  /\ chunks' = chunks + 1
  /\ UNCHANGED << inputVars, localVars, pc, netVars, installVars, cfgVars,
                  errorOutput, exitCode, exportVars, msgs, steps, helperVars >>

\* the test file calls its parseEnvOutput with the text
ApplyHelper ==
  /\ pc = "parsed"
  /\ helperParsed' = parseEnvOutput_underscore(output)
  /\ pc' = "compared"
  /\ UNCHANGED << inputVars, localVars, netVars, installVars, cfgVars, procVars,
                  exportVars, msgs, steps, helperUrls >>

NextJson == AppendJsonToken \/ ApplyParse \/ ApplyHelper

SpecJson == InitJson /\ [][NextJson]_vars

(***************************************************************************)
(* Properties.                                                             *)
(***************************************************************************)
Range(seq) == { seq[i] : i \in 1..Len(seq) }

Failures == { m \in Range(msgs) : m.level = "failed" }

UnsupportedReported == \E m \in Failures : m.kind = "UnsupportedPlatform"

SuccessMsgs == { m \in Range(msgs) : m.kind = "SuccessfullySet" }

\* nothing was downloaded, written, added to PATH, executed or exported
NoSideEffects ==
  /\ requests = <<>>
  /\ archive = NoArchive
  /\ ~unlinkPending
  /\ ~binary.exists
  /\ ~pathAdded
  /\ ~configWritten
  /\ configFile = oldConfig
  /\ "exec" \notin Range(steps)
  /\ output = <<>> /\ errorOutput = <<>>
  /\ exported = <<>>

SupportedPlatforms == { StrDarwin, StrLinux }

\* C1: every value handed to core.exportVariable was registered for log
\* masking (core.setSecret) before.  run() never registers a value, so the
\* first export violates it.
C1_ExportedValuesMasked ==
  \A i \in 1..Len(exported) : exported[i].value \in masked

\* C2 as stated: a finished run reported the unsupported-platform failure if
\* and only if process.platform is neither darwin nor linux, whatever
\* process.arch is; such a run had no side effect; an architecture that is
\* neither x64 nor arm64 passes unchanged into the platform string.
C2_UnsupportedIffPlatform ==
  /\ pc = "done" =>
       (UnsupportedReported <=> platform \notin SupportedPlatforms)
  /\ UnsupportedReported => NoSideEffects
  /\ (platformString # <<>> /\ arch \notin {StrX64, StrArm64}) =>
       /\ ~UnsupportedReported
       /\ platformString =
            (IF platform = StrDarwin THEN OsDarwin ELSE OsLinux) \o <<"_">> \o arch

\* C2 amended: the same, the "if" direction for the runs whose required
\* config input is supplied (a missing config fails the run before the
\* platform is looked at).
C2_UnsupportedIffPlatformGivenConfig ==
  /\ UnsupportedReported => platform \notin SupportedPlatforms
  /\ (pc = "done" /\ inConfig # <<>> /\ platform \notin SupportedPlatforms) =>
       UnsupportedReported
  /\ UnsupportedReported => NoSideEffects /\ pc = "done"
  /\ (platformString # <<>> /\ arch \notin {StrX64, StrArm64}) =>
       /\ ~UnsupportedReported
       /\ platformString =
            (IF platform = StrDarwin THEN OsDarwin ELSE OsLinux) \o <<"_">> \o arch

\* C2 witness: a run on win32/ia32 with a config ended with the failure
C2_Witness ==
  /\ pc = "done" /\ UnsupportedReported
  /\ inConfig # <<>> /\ platform = StrWin32 /\ arch = StrIa32

\* the version run() works with: the input, or 0.0.2 when none is given
EffectiveVersion == IF inVersion = <<>> THEN DefaultVersion ELSE inVersion

WithLeadingV(v) == IF v # <<>> /\ v[1] = "v" THEN v ELSE <<"v">> \o v

C4_HelpersMirrorRun ==
  (helperUrls.evaluated /\ platform \in SupportedPlatforms
     /\ arch \in {StrX64, StrArm64}) =>
    /\ helperUrls.arch = Architecture(arch)
    /\ helperUrls.hyphenArch = Architecture(arch)
    /\ helperUrls.platformString = platformString
    /\ helperUrls.hyphenPlatformString = platformString
    /\ helperUrls.underscoreUrl = requests[1]
    /\ helperUrls.hyphenUrl = requests[1]

\* C5: version normalization is idempotent; a version starting with v is
\* returned unchanged; any other gains exactly one leading v; and the run
\* with version X (not starting with v) requests the URL the run with vX
\* requests.
C5_NormalizeIdempotent ==
  /\ NormalizedVersion(NormalizedVersion(inVersion)) = NormalizedVersion(inVersion)
  /\ (inVersion # <<>> /\ inVersion[1] = "v") => NormalizedVersion(inVersion) = inVersion
  /\ (inVersion = <<>> \/ inVersion[1] # "v") =>
       /\ NormalizedVersion(inVersion) = <<"v">> \o inVersion
       /\ Len(NormalizedVersion(inVersion)) = Len(inVersion) + 1
  /\ (requests # <<>> /\ version[1] # "v") =>
       /\ requests[1] = DownloadUrl(<<"v">> \o version, platform, arch)
       /\ SubSeq(requests[1], Len(UrlBase) + 1, Len(UrlBase) + 2 + Len(version))
            = <<"v">> \o version \o <<"/">>
  /\ (requests # <<>> /\ version[1] = "v") =>
       SubSeq(requests[1], Len(UrlBase) + 1, Len(UrlBase) + 1 + Len(version))
         = version \o <<"/">>

\* C5 witness: a run with version 1.1 (no prefix) issued its GET
C5_Witness == requests # <<>> /\ inVersion = <<"1",".","1">>

\* C6: when the subprocess is started, .sstart.yml was written earlier in the
\* same run, and when the child starts the file holds exactly the config
\* input, whatever it held before the run.
C6_ConfigWrittenBeforeSubprocess ==
  /\ "exec" \in Range(steps) =>
       /\ configWritten
       /\ \E i, j \in 1..Len(steps) :
            i < j /\ steps[i] = "config" /\ steps[j] = "exec"
  /\ pc = "running" => configFile = [exists |-> TRUE, content |-> inConfig]

\* C6 witness: the child was started over an older .sstart.yml of other content
C6_Witness ==
  /\ pc = "running" /\ chunks = 0
  /\ oldConfig.exists /\ oldConfig.content # inConfig
  /\ configFile.content = inConfig

(***************************************************************************)
(* The line format as the specification words it, on one line of text.     *)
(***************************************************************************)
KeyFirstChars == UpperCase \cup LowerCase \cup {"_"}
KeyChars == UpperCase \cup LowerCase \cup Digits \cup {"_"}

\* IDENTIFIER=VALUE: the text before the first '=' is an identifier
HasAssignmentShape(l) ==
  LET k == FirstIndex(l, "=")
  IN /\ k >= 2
     /\ l[1] \in KeyFirstChars
     /\ \A j \in 2..(k - 1) : l[j] \in KeyChars

KeyOf(l) == SubSeq(l, 1, FirstIndex(l, "=") - 1)

\* everything after the first '='
ValueOf(l) == SubSeq(l, FirstIndex(l, "=") + 1, Len(l))

\* a line the specification counts: not blank, no comment, IDENTIFIER=VALUE
ValidLine(l) == Trim(l) # <<>> /\ l[1] # "#" /\ HasAssignmentShape(l)

\* a line the specification skips: blank, a comment, or not IDENTIFIER=VALUE,
\* surrounding white space aside
SkippedLine(l) ==
  LET t == Trim(l)
  IN t = <<>> \/ t[1] = "#" \/ ~HasAssignmentShape(t)

RemoveAt(seq, i) == SubSeq(seq, 1, i - 1) \o SubSeq(seq, i + 1, Len(seq))

RECURSIVE JoinLines(_)
JoinLines(lines) ==
  IF lines = <<>> THEN <<>>
  ELSE IF Len(lines) = 1 THEN lines[1]
  ELSE lines[1] \o <<"\n">> \o JoinLines(Tail(lines))

KeysOf(obj) == { obj[i].key : i \in 1..Len(obj) }

DistinctKeys(obj) == \A i, j \in 1..Len(obj) : obj[i].key = obj[j].key => i = j

\* the last valid line of the text that carries key k
LastValidLine(lines, k) ==
  lines[CHOOSE i \in 1..Len(lines) :
          /\ ValidLine(lines[i]) /\ KeyOf(lines[i]) = k
          /\ \A j \in (i + 1)..Len(lines) :
               ~(ValidLine(lines[j]) /\ KeyOf(lines[j]) = k)]

\* C7: every non-blank line that does not start with '#' and has the shape
\* IDENTIFIER=VALUE contributes the entry IDENTIFIER -> everything after the
\* first '=', verbatim (the last such line of a key decides its value).
C7_LinesContributeVerbatim ==
  pc = "parsed" =>
    LET lines == SplitLines(output)
    IN \A i \in 1..Len(lines) :
         ValidLine(lines[i]) =>
           \E e \in Range(envVars) :
             /\ e.key = KeyOf(lines[i])
             /\ e.value = ValueOf(LastValidLine(lines, KeyOf(lines[i])))

\* C8: parseEnvOutput returns a map for every text, and a blank line, a line
\* starting with '#' or a line that is not IDENTIFIER=VALUE contributes
\* nothing: the text without that line parses to the same map.
C8_SkippedLinesContributeNothing ==
  pc = "parsed" =>
    LET lines == SplitLines(output)
    IN /\ DistinctKeys(envVars)
       /\ \A i \in 1..Len(lines) :
            SkippedLine(lines[i]) =>
              /\ parseEnvOutput(JoinLines(RemoveAt(lines, i))) = envVars
              /\ \A e \in Range(envVars) :
                   \E j \in 1..Len(lines) : j # i /\ ~SkippedLine(lines[j])

\* C8 witness: a text with an entry and a non-blank skipped line was parsed
C8_Witness ==
  /\ pc = "parsed" /\ envVars # <<>>
  /\ \E i \in 1..Len(SplitLines(output)) :
       /\ Trim(SplitLines(output)[i]) # <<>>
       /\ SkippedLine(SplitLines(output)[i])

\* C9: in a run that reached the success message, a key carried by several
\* valid lines is in the parsed map exactly once, with the value of its last
\* occurrence, and was exported exactly once, with that value.
C9_LastOccurrenceWins ==
  SuccessMsgs # {} =>
    LET lines == SplitLines(output)
    IN \A i, j \in 1..Len(lines) :
         (i < j /\ ValidLine(lines[i]) /\ ValidLine(lines[j])
            /\ KeyOf(lines[i]) = KeyOf(lines[j])) =>
           LET k == KeyOf(lines[i])
               last == [key |-> k, value |-> ValueOf(LastValidLine(lines, k))]
           IN /\ Cardinality({ n \in 1..Len(envVars) : envVars[n].key = k }) = 1
              /\ last \in Range(envVars)
              /\ Cardinality({ n \in 1..Len(exported) : exported[n].key = k }) = 1
              /\ last \in Range(exported)

\* C10: in a run that reached the success message the reported count is the
\* number of distinct keys of the parsed map and the number of
\* core.exportVariable calls, every key of the map exported exactly once.
C10_CountEqualsKeysAndExports ==
  \A m \in SuccessMsgs :
    /\ pc = "done"
    /\ m.count = Cardinality(KeysOf(envVars))
    /\ m.count = Len(exported)
    /\ \A k \in KeysOf(envVars) :
         Cardinality({ n \in 1..Len(exported) : exported[n].key = k }) = 1
    /\ Range(exported) = Range(envVars)

\* C10 witness: a run reported two variables set
C10_Witness == \E m \in SuccessMsgs : m.count = 2 /\ Len(exported) = 2

\* C11: when the subprocess exited with code 0 and its captured standard output
\* is empty or holds only whitespace, the run logs the warning, exports no
\* variable, reports no failure and no success, and ends.
WhitespaceOnly(text) == \A i \in 1..Len(text) : text[i] \in {" ", "\t", "\n", "\r", "\f"}

C11_EmptyOutputWarns ==
  (exitCode = "0" /\ WhitespaceOnly(output) /\ pc # "exited")
    => /\ pc = "done"
       /\ msgs[Len(msgs)] = Msg("warning", "NoOutput", <<>>)
       /\ exported = <<>>
       /\ envVars = <<>>
       /\ Failures = {}
       /\ SuccessMsgs = {}
       /\ "parse" \notin Range(steps)

C11_Witness ==
  /\ pc = "done"
  /\ exitCode = "0"
  /\ output = <<"\n", "\n">>
  /\ \E m \in Range(msgs) : m.level = "warning"

\* C12: when the subprocess exits with a code other than 0 the run reports a
\* failure and exports no variable, and when the captured standard error is
\* not empty its content is handed to core.error alongside the failure.
NonZeroExitReported ==
  \E m \in Failures :
    /\ m.kind \in {"ExecFailed", "ExitedWithCode"}
    /\ m.arg \in { <<code>> : code \in ExitCodes \ {"0"} }

C12_NonZeroExitSurfacesStderr ==
  (pc = "done" /\ NonZeroExitReported)
    => /\ exported = <<>>
       /\ errorOutput # <<>> =>
            \E m \in Range(msgs) : m.level = "error" /\ m.arg = errorOutput

\* C13: a run that reached the export loop ends either with every entry of the
\* parsed map exported, or reported as failed with no entry exported; it never
\* ends reported as failed with some but not all entries exported.
C13_NoPartialExport ==
  (pc = "done" /\ "parse" \in Range(steps))
    => \/ Failures = {} /\ exported = ObjectEntries(envVars)
       \/ Failures # {} /\ exported = <<>>

\* C14: core.setFailed is called at most once in a run and never in a run that
\* logged the success message; a run that ended has logged exactly one of the
\* success message, the empty-output warning, or one failure message.
CountMsgs(P(_)) == Cardinality({ i \in 1..Len(msgs) : P(msgs[i]) })

IsFailure(m) == m.level = "failed"

IsSuccess(m) == m.kind = "SuccessfullySet"

IsNoOutputWarning(m) == m.level = "warning"

C14_OneOutcome ==
  /\ CountMsgs(IsFailure) <= 1
  /\ CountMsgs(IsFailure) = 1 => CountMsgs(IsSuccess) = 0
  /\ pc = "done" =>
       CountMsgs(IsFailure) + CountMsgs(IsSuccess) + CountMsgs(IsNoOutputWarning) = 1

C14_Witness ==
  /\ pc = "done"
  /\ CountMsgs(IsFailure) = 1
  /\ configWritten
  /\ Len(msgs) > 5

\* C15: a 301, 302, 307 or 308 response that carries a Location header makes
\* downloadFile issue the GET again against that Location and writes nothing;
\* the bytes in the destination file are the body of the response with status
\* 200 that ended the chain, which answered the last URL asked.
FollowedStatuses == {"301", "302", "307", "308"}

RedirectArrives ==
  /\ response'.n = response.n + 1
  /\ response'.status \in FollowedStatuses
  /\ response'.hasLocation

C15_RedirectsFollowed ==
  /\ [][RedirectArrives =>
          /\ requests' = Append(requests, response'.location)
          /\ archive' = archive
          /\ ~archive.exists
          /\ pc' = "download"]_vars
  /\ [](archive.exists =>
          /\ response.status = "200"
          /\ archive.response = response.n
          /\ archive.response = Len(requests)
          /\ archive.body = requests[Len(requests)])
  /\ [](requests # <<>> => requests[1] = downloadUrl)

C15_Witness ==
  /\ archive.exists
  /\ archive.complete
  /\ Len(requests) = 3
  /\ requests[2] # requests[3]
  /\ archive.body = requests[3]

\* C16: a response whose status is neither 2xx nor 301, 302, 307 or 308 makes
\* downloadFile reject with a message that carries the status; no file is
\* created at the destination, the run reports that the binary could not be
\* downloaded, and no extraction, config write, subprocess or export happens.
SuccessClassStatuses == {"200", "204"}

LaterSteps == {"extract", "unlink", "chmod", "path", "config", "exec", "parse", "export"}

C16_OtherStatusRejects ==
  (response.status \notin {"none"} \cup SuccessClassStatuses \cup FollowedStatuses)
    => /\ pc = "done"
       /\ msgs[Len(msgs)] =
            Msg("failed", "CouldNotDownload",
                <<"DownloadFailedWithStatus", response.status>>)
       /\ CountMsgs(IsFailure) = 1
       /\ archive = NoArchive
       /\ ~binary.exists
       /\ ~configWritten /\ configFile = oldConfig
       /\ output = <<>> /\ exitCode = "none"
       /\ exported = <<>>
       /\ Range(steps) \cap LaterSteps = {}

C16_Witness ==
  /\ pc = "done"
  /\ response.status = "404"
  /\ response.n = 2
  /\ oldConfig # NoFile

\* C17: the archive is cleaned up only after a successful extraction: when the
\* binary is made executable tar has succeeded and the archive file has been
\* deleted before; when tar fails the run reports the extraction failure, the
\* archive file stays in place and no later step runs.
Position(seq, x) == CHOOSE i \in 1..Len(seq) : seq[i] = x

TarFailed == Msg("failed", "CouldNotExtract", <<"tar">>) \in Range(msgs)

C17_ArchiveCleanup ==
  /\ ("chmod" \in Range(steps) \/ binary.executable)
       => /\ binary.exists
          /\ ~archive.exists
          /\ "extract" \in Range(steps) /\ "unlink" \in Range(steps)
          /\ Position(steps, "extract") < Position(steps, "unlink")
          /\ Position(steps, "unlink") < Position(steps, "chmod")
  /\ TarFailed
       => /\ pc = "done"
          /\ msgs[Len(msgs)] = Msg("failed", "CouldNotExtract", <<"tar">>)
          /\ archive.exists /\ archive.complete
          /\ ~binary.executable
          /\ ~pathAdded /\ ~configWritten /\ exported = <<>>
          /\ Range(steps) \cap (LaterSteps \ {"extract"}) = {}

C17_Witness ==
  /\ binary.exists
  /\ binary.executable
  /\ ~archive.exists
  /\ "unlink" \in Range(steps)

\* C18: the parseEnvOutput of the test file returns the empty map for an
\* output that is empty or only whitespace, returns the decoded object when the
\* trimmed output decodes as JSON to an object that is neither null nor an
\* array, and otherwise throws a parse error, whose reason is 'Expected JSON
\* object' when the text decodes to null, an array or a scalar.
DecodedTrimmed == JSONParse(Trim(output))

C18_JsonHelperContract ==
  helperParsed.called =>
    /\ WhitespaceOnly(output) =>
         ~helperParsed.threw /\ helperParsed.value = JObject(<<>>)
    /\ (~WhitespaceOnly(output) /\ DecodedTrimmed.ok
          /\ DecodedTrimmed.value.type = "object") =>
         ~helperParsed.threw /\ helperParsed.value = DecodedTrimmed.value
    /\ (~WhitespaceOnly(output)
          /\ (~DecodedTrimmed.ok \/ DecodedTrimmed.value.type # "object")) =>
         /\ helperParsed.threw
         /\ helperParsed.message[1] = FailedToParse
         /\ DecodedTrimmed.ok => helperParsed.message[2] = ExpectedJsonObject
    /\ output = <<" ", "{", "\"", "K", "\"", ":", "1", "}">> =>
         helperParsed.value = JObject(<< [key |-> <<"K">>, value |-> JNumber(<<"1">>)] >>)
    /\ output \in { <<"n","u","l","l">>, <<"[", "1", "]">>, <<"1">>, <<"[", "]", " ">> } =>
         helperParsed.threw /\ helperParsed.message[2] = ExpectedJsonObject
    /\ output \in { <<"{">>, <<"A","=","1">>, <<"{", ",", "}">>, <<"1", " ", "1">> } =>
         helperParsed.threw /\ helperParsed.message[2] # ExpectedJsonObject

C18_Witness ==
  /\ helperParsed.called
  /\ ~helperParsed.threw
  /\ helperParsed.value.type = "object"
  /\ Len(helperParsed.value.items) = 1
  /\ helperParsed.value.items[1].value = JNull

\* C19: for every output text the parseEnvOutput of the test file and the
\* parseEnvOutput of index.js return the same map, or both fail.
SameMap(entries, value) ==
  /\ value.type = "object"
  /\ Len(value.items) = Len(entries)
  /\ \A i \in 1..Len(entries) :
       \E j \in 1..Len(value.items) :
         /\ value.items[j].key = entries[i].key
         /\ value.items[j].value = JString(entries[i].value)

C19_HelperMirrorsParse ==
  helperParsed.called =>
    /\ ~helperParsed.threw
    /\ SameMap(ObjectEntries(envVars), helperParsed.value)

\* C20: the steps of a run happen in the order read inputs, resolve platform,
\* download, extract, delete archive, chmod, add to PATH, write config, run
\* subprocess, parse, export; each step other than the export of one more
\* variable happens at most once, a step starts only when the one before it
\* has completed, and after the first failure no later step happens.
StepOrder ==
  << "inputs", "platform", "download", "extract", "unlink", "chmod", "path",
     "config", "exec", "parse", "export" >>

StepsInOrder ==
  \A i \in 1..Len(steps) :
    steps[i] = StepOrder[IF i < Len(StepOrder) THEN i ELSE Len(StepOrder)]

PreviousStepCompleted ==
  /\ "platform" \in Range(steps) => config # <<>>
  /\ "download" \in Range(steps) => platformString # <<>>
  /\ ("extract" \in Range(steps) /\ "unlink" \notin Range(steps))
       => archive.exists /\ archive.complete
  /\ "unlink" \in Range(steps) => binary.exists
  /\ "chmod" \in Range(steps) => ~archive.exists
  /\ "path" \in Range(steps) => binary.executable
  /\ "config" \in Range(steps) => pathAdded
  /\ "exec" \in Range(steps) => configWritten
  /\ "parse" \in Range(steps) => exitCode = "0"
  /\ "export" \in Range(steps) => pc \in {"export", "done"}

C20_StrictlySequential ==
  /\ [](StepsInOrder /\ PreviousStepCompleted)
  /\ [][CountMsgs(IsFailure) > 0 =>
          /\ steps' = steps
          /\ requests' = requests
          /\ binary' = binary /\ pathAdded' = pathAdded
          /\ configFile' = configFile
          /\ output' = output /\ exitCode' = exitCode
          /\ envVars' = envVars /\ exported' = exported
          /\ msgs' = msgs]_vars

C20_Witness ==
  /\ pc = "done"
  /\ Len(exported) = 2
  /\ Len(steps) = Len(StepOrder) + 1
  /\ CountMsgs(IsSuccess) = 1

C20_WitnessFailure ==
  /\ pc = "done"
  /\ steps = SubSeq(StepOrder, 1, 8)
  /\ CountMsgs(IsFailure) = 1

\* C21: when writing the response body fails, the partial file is deleted
\* before the error is propagated: once run() has reported the write error the
\* partial file no longer exists, unless the deletion itself failed, which is
\* swallowed.
WriteErrorReported ==
  Msg("failed", "CouldNotDownload", <<"WriteError">>) \in Range(msgs)

C21_PartialFileDeletedBeforeReport ==
  WriteErrorReported => ~(archive.exists /\ unlinkPending)

\* C22: a run never waits forever: as long as it has not reported its outcome
\* a next step is possible, in particular the download settles after a request
\* error and after a connection that breaks while the body is streamed.
C22_RunNeverWaitsForever == pc # "done" => ENABLED Next

\* C23: a redirect loop is a fatal download error: once the chain of redirects
\* has come back to a URL that was asked before, downloadFile has rejected and
\* the run has reported the download failure instead of asking again.
RedirectLoopClosed ==
  \E i, j \in 1..Len(requests) : i < j /\ requests[i] = requests[j]

C23_RedirectLoopRejected ==
  RedirectLoopClosed =>
    /\ pc = "done"
    /\ \E m \in Failures : m.kind = "CouldNotDownload"

\* C24: the standard output and the standard error of the subprocess go to two
\* buffers: every data callback appends its chunk to the end of the buffer of
\* its stream and leaves the other buffer alone, the buffers do not change
\* once the subprocess has exited, and the text that is parsed and exported is
\* the buffer of standard output, with no chunk of standard error in it.
StderrChars == UNION { Range(data) : data \in StderrChunks }

DataCallback ==
  \/ \E data \in StdoutChunks :
       output' = output \o data /\ errorOutput' = errorOutput
  \/ \E data \in StderrChunks :
       errorOutput' = errorOutput \o data /\ output' = output

C24_SeparateBuffers ==
  /\ [][IF pc = "running" /\ chunks' = chunks + 1
        THEN DataCallback
        ELSE output' = output /\ errorOutput' = errorOutput]_vars
  /\ [](Range(output) \cap StderrChars = {})
  /\ []("parse" \in Range(steps) => envVars = parseEnvOutput(output))
  /\ [](\A i \in 1..Len(exported) :
          /\ Range(exported[i].key) \cap StderrChars = {}
          /\ Range(exported[i].value) \cap StderrChars = {})

C24_Witness ==
  /\ pc = "done"
  /\ output = <<"A", "=", "1", "1">>
  /\ errorOutput = <<"E">>
  /\ exported = << [key |-> <<"A">>, value |-> <<"1", "1">>] >>

\* C25: every name handed to core.exportVariable is not empty, starts with a
\* letter or an underscore and holds only letters, digits and underscores, and
\* every value handed to it is a string (a piece of the captured output).
IsString(x) ==
  /\ DOMAIN x = 1..Len(x)
  /\ \A i \in 1..Len(x) : x[i] \in Range(output)

C25_ExportedNamesAndValues ==
  \A i \in 1..Len(exported) :
    /\ Len(exported[i].key) >= 1
    /\ exported[i].key[1] \in KeyFirstChars
    /\ \A j \in 1..Len(exported[i].key) : exported[i].key[j] \in KeyChars
    /\ IsString(exported[i].value)

C25_Witness ==
  /\ pc = "done"
  /\ output = <<"B", "=", "\n", "1">>
  /\ exported = << [key |-> <<"B">>, value |-> <<>>] >>

\* C26: downloadFile resolves only when the write stream has finished, that is
\* when the whole body of the 200 response is in the destination file, and it
\* settles at most once; the tar extraction never starts while the archive is
\* still being written.
DownloadRejections ==
  CountMsgs(LAMBDA m : m.level = "failed" /\ m.kind = "CouldNotDownload")

C26_ResolvesAfterFinish ==
  /\ [][(pc # "extract" /\ pc' = "extract")
          => /\ pc = "streaming"
             /\ archive'.exists /\ archive'.complete
             /\ archive'.response = response.n
             /\ ~unlinkPending']_vars
  /\ [](pc = "extract" => archive.exists /\ archive.complete)
  /\ []("extract" \in Range(steps) => DownloadRejections = 0)
  /\ [](DownloadRejections <= 1)
  /\ []((archive.exists /\ ~archive.complete) => "extract" \notin Range(steps))

C26_Witness ==
  /\ pc = "extract"
  /\ archive.complete
  /\ Len(requests) = 2

\* C27: downloadFile succeeds only when the final status is exactly 200: a
\* 204 and a 303 make it reject with the status in the message, without a GET
\* against the Location header of the response and without creating the
\* destination file.
OtherSuccessOrRedirectClass == {"204", "303"}

C27_OnlyExact200 ==
  /\ (archive.exists \/ "extract" \in Range(steps)) => response.status = "200"
  /\ response.status \in OtherSuccessOrRedirectClass
       => /\ pc = "done"
          /\ msgs[Len(msgs)] =
               Msg("failed", "CouldNotDownload",
                   <<"DownloadFailedWithStatus", response.status>>)
          /\ archive = NoArchive
          /\ Len(requests) = response.n
          /\ "extract" \notin Range(steps)

C27_Witness ==
  /\ pc = "done"
  /\ response.status = "303"
  /\ response.hasLocation
  /\ response.location \notin Range(requests)

C27_Witness204 ==
  /\ pc = "done"
  /\ response.status = "204"
  /\ response.n = 2

\* C28: a 301, 302, 307 or 308 response without a Location header makes
\* downloadFile reject, and the run reports the download failure through its
\* own handler; the promise is not left pending.
C28_RedirectWithoutLocationRejects ==
  (response.status \in FollowedStatuses /\ ~response.hasLocation)
    => /\ pc = "done"
       /\ msgs[Len(msgs)] = Msg("failed", "CouldNotDownload", <<"TypeError">>)
       /\ CountMsgs(IsFailure) = 1
       /\ archive = NoArchive
       /\ Len(requests) = response.n
       /\ Range(steps) \cap LaterSteps = {}

C28_Witness ==
  /\ response.status = "307"
  /\ ~response.hasLocation
  /\ response.n = 2
  /\ pc = "done"

\* C29: when tar succeeds and deleting the archive afterwards fails, the run
\* ends reported with the extraction failure, and chmod, the PATH change, the
\* config write, the subprocess and the export do not happen although the
\* binary was extracted.
UnlinkFailed == Msg("failed", "CouldNotExtract", <<"unlink">>) \in Range(msgs)

C29_UnlinkFailureAborts ==
  UnlinkFailed
    => /\ pc = "done"
       /\ msgs[Len(msgs)] = Msg("failed", "CouldNotExtract", <<"unlink">>)
       /\ CountMsgs(IsFailure) = 1
       /\ binary.exists /\ ~binary.executable
       /\ archive.exists /\ archive.complete
       /\ ~pathAdded
       /\ ~configWritten /\ configFile = oldConfig
       /\ output = <<>> /\ exitCode = "none"
       /\ exported = <<>>
       /\ Range(steps) \cap {"chmod", "path", "config", "exec", "parse", "export"} = {}

C29_Witness ==
  /\ UnlinkFailed
  /\ binary.exists
  /\ oldConfig # NoFile

\* C30: the required config input is read before anything else: when it is
\* missing the run reports one failure through the handler at the end of run()
\* and nothing else happens -- no platform check result, download, file write,
\* PATH change, subprocess or export -- on every platform.
C30_MissingConfigFailsFirst ==
  (inConfig = <<>> /\ pc # "start")
    => /\ pc = "done"
       /\ msgs = << Msg("failed", "InputRequired", <<"c","o","n","f","i","g">>) >>
       /\ steps = << "inputs" >>
       /\ config = <<>> /\ version = <<>>
       /\ platformString = <<>> /\ downloadUrl = <<>>
       /\ NoSideEffects

C30_Witness ==
  /\ inConfig = <<>>
  /\ pc = "done"
  /\ platform = StrWin32
  /\ Len(msgs) = 1

C30_WitnessSupported ==
  /\ inConfig = <<>>
  /\ pc = "done"
  /\ platform = StrLinux
  /\ oldConfig # NoFile

====
